---------------------------- MODULE Spec2Model ----------------------------
(***************************************************************************)
(* A model of the citation pipeline: citation_analyzer.py (call_llm_api,   *)
(* process_single_pdf, main) over extract_pdf.py (extract_pdf).            *)
(*                                                                         *)
(* Strings are sequences of one-character strings.  Python values (the     *)
(* parsed JSON of the model's completion, the Paper Records, the cells of  *)
(* a CSV row) are tagged records:                                          *)
(*   [t |-> "none", v |-> 0]     None / JSON null                          *)
(*   [t |-> "num",  v |-> n]     an int                                    *)
(*   [t |-> "str",  v |-> s]     a str, s its characters                   *)
(*   [t |-> "list", v |-> xs]    a list                                    *)
(*   [t |-> "dict", v |-> kvs]   a dict, kvs its <<key, value>> items in   *)
(*                               insertion order, a key an atomic name     *)
(* The extracted text of a PDF is modelled by its number of characters,    *)
(* and a completion text by whether it is a JSON document and which.       *)
(* An operation that can raise returns Raise(name) or Ok(value).           *)
(***************************************************************************)
EXTENDS Integers, Sequences, FiniteSets, TLC

---------------------------------------------------------------------------
(* Bounds of the model. *)

\* the largest folder listing considered
MaxFiles == 2

---------------------------------------------------------------------------
(* Configuration, citation_analyzer.py lines 10-17, and the literals of    *)
(* call_llm_api and main.                                                  *)

MAX_CONCURRENT == 4

PDF_FOLDER == <<".", "/", "p", "a", "p", "e", "r", "s">>

max_retries == 3

\* wait_time = 5, the delay before the first retry
InitialWaitTime == 5

\* the cut of quote[:200] and of len(quote) > 200
QuoteLimit == 200

Ellipsis == <<".", ".", ".">>

\* the prompt's own label of the embedded text: "PDF内容(前30000字符)"
PromptTextLabel == 30000

---------------------------------------------------------------------------
(* Python values. *)

None == [t |-> "none", v |-> 0]

Num(n) == [t |-> "num", v |-> n]

Str(s) == [t |-> "str", v |-> s]

List(xs) == [t |-> "list", v |-> xs]

Dict(kvs) == [t |-> "dict", v |-> kvs]

Raise(e) == [exc |-> e, ok |-> None]

Ok(x) == [exc |-> "", ok |-> x]

Raised(r) == r.exc # ""

\* bool(x), as `not result` and `if not pdf_text` evaluate it
Truthy(x) ==
    CASE x.t = "none" -> FALSE
      [] x.t = "num" -> x.v # 0
      [] OTHER -> Len(x.v) > 0

HasKey(d, k) == \E i \in 1..Len(d.v) : d.v[i][1] = k

\* d.get(k, default) of a dict d
DictGet(d, k, default) ==
    IF HasKey(d, k)
    THEN d.v[CHOOSE i \in 1..Len(d.v) : d.v[i][1] = k][2]
    ELSE default

\* x.get(k, default) of any value: only a dict has the attribute
Get(x, k, default) ==
    IF x.t = "dict" THEN Ok(DictGet(x, k, default)) ELSE Raise("AttributeError")

\* len(x)
PyLen(x) ==
    IF x.t \in {"str", "list", "dict"} THEN Ok(Len(x.v)) ELSE Raise("TypeError")

\* the items `for e in x` visits: a str gives its characters, a dict its keys
Iterate(x) ==
    CASE x.t = "list" -> Ok(x.v)
      [] x.t = "str" -> Ok([i \in 1..Len(x.v) |-> Str(<<x.v[i]>>)])
      [] x.t = "dict" -> Ok([i \in 1..Len(x.v) |-> Str(<<x.v[i][1]>>)])
      [] OTHER -> Raise("TypeError")

\* x[k] for a str key k
Subscript(x, k) ==
    CASE x.t = "dict" -> IF HasKey(x, k) THEN Ok(DictGet(x, k, None)) ELSE Raise("KeyError")
      [] OTHER -> Raise("TypeError")

\* x[0]
First(x) ==
    CASE x.t = "list" -> IF Len(x.v) > 0 THEN Ok(x.v[1]) ELSE Raise("IndexError")
      [] x.t = "str" -> IF Len(x.v) > 0 THEN Ok(Str(<<x.v[1]>>)) ELSE Raise("IndexError")
      [] x.t = "dict" -> Raise("KeyError")
      [] OTHER -> Raise("TypeError")

\* json.loads(x): a completion text [t |-> "json_text", v |-> d] is the
\* serialization of d; every plain str of the model is not JSON
JsonLoads(x) ==
    CASE x.t = "json_text" -> Ok(x.v)
      [] x.t = "str" -> Raise("JSONDecodeError")
      [] OTHER -> Raise("TypeError")

JsonText(d) == [t |-> "json_text", v |-> d]

---------------------------------------------------------------------------
(* Strings and paths. *)

UpperCase == <<"A", "B", "C", "D", "E", "F", "G", "H", "I", "J", "K", "L", "M",
               "N", "O", "P", "Q", "R", "S", "T", "U", "V", "W", "X", "Y", "Z">>

LowerCase == <<"a", "b", "c", "d", "e", "f", "g", "h", "i", "j", "k", "l", "m",
               "n", "o", "p", "q", "r", "s", "t", "u", "v", "w", "x", "y", "z">>

LowerChar(c) ==
    IF \E i \in 1..Len(UpperCase) : UpperCase[i] = c
    THEN LowerCase[CHOOSE i \in 1..Len(UpperCase) : UpperCase[i] = c]
    ELSE c

\* s.lower()
Lower(s) == [i \in 1..Len(s) |-> LowerChar(s[i])]

\* s.endswith(suffix)
EndsWith(s, suffix) ==
    /\ Len(s) >= Len(suffix)
    /\ SubSeq(s, Len(s) - Len(suffix) + 1, Len(s)) = suffix

PdfSuffix == <<".", "p", "d", "f">>

\* the filter of the listing, main line 150: f.lower().endswith(".pdf")
IsPdfName(f) == EndsWith(Lower(f), PdfSuffix)

\* os.path.join(folder, f), for a relative f and a folder without a trailing "/"
PathJoin(folder, f) == folder \o <<"/">> \o f

\* os.path.basename(p): what follows the last "/"
Basename(p) ==
    LET slashes == {i \in 1..Len(p) : p[i] = "/"}
        last == IF slashes = {} THEN 0 ELSE CHOOSE i \in slashes : \A j \in slashes : j <= i
    IN SubSeq(p, last + 1, Len(p))

\* sep.join(xs) of a list value of strs
RECURSIVE JoinStrs(_, _)
JoinStrs(sep, xs) ==
    IF Len(xs) = 0 THEN <<>>
    ELSE IF Len(xs) = 1 THEN xs[1].v
    ELSE xs[1].v \o sep \o JoinStrs(sep, Tail(xs))

AuthorSep == <<";", " ">>

\* "; ".join(x): x is iterated, and every item must be a str
Join(sep, x) ==
    LET it == Iterate(x)
    IN IF Raised(it) THEN it
       ELSE IF \E i \in 1..Len(it.ok) : it.ok[i].t # "str" THEN Raise("TypeError")
       ELSE Ok(Str(JoinStrs(sep, it.ok)))

---------------------------------------------------------------------------
(* call_llm_api.  One call is a frame of its locals; one iteration of the  *)
(* retry loop takes the frame and the outcome of requests.post to the next *)
(* frame and to what the iteration did: the request, its prints, its sleep.*)

YOUR_PAPER_TITLE == <<>>

EmptyDict == Dict(<<>>)

NoBody == [json |-> FALSE, data |-> None]

\* requests.post returned a response with this status and body
Http(code, body) == [kind |-> "http", code |-> code, body |-> body]

\* requests.post raised requests.Timeout / requests.ConnectionError
Timeout == [kind |-> "Timeout", code |-> 0, body |-> NoBody]

ConnectionError == [kind |-> "ConnectionError", code |-> 0, body |-> NoBody]

\* requests.post raised another exception (too many redirects, an invalid URL)
RequestException == [kind |-> "RequestException", code |-> 0, body |-> NoBody]

\* a body that is JSON, parsed by response.json() to data
JsonBody(data) == [json |-> TRUE, data |-> data]

\* the f-string of lines 31-56: the title twice and {pdf_text} whole
BuildPrompt(pdf_text) == [title |-> YOUR_PAPER_TITLE, text |-> pdf_text]

NoPrompt == BuildPrompt(0)

\* what one iteration does, in order: the request (with what came back), a
\* print, a time.sleep
Posted(prompt, r) == [e |-> "post", prompt |-> prompt, resp |-> r, secs |-> 0, msg |-> ""]

Slept(secs) == [e |-> "sleep", prompt |-> NoPrompt, resp |-> Timeout, secs |-> secs, msg |-> ""]

Printed(msg) == [e |-> "print", prompt |-> NoPrompt, resp |-> Timeout, secs |-> 0, msg |-> msg]

\* lines 28-67: the locals before the first iteration
NewCall(pdf_text) ==
    [attempt |-> 0, wait_time |-> InitialWaitTime, prompt |-> BuildPrompt(pdf_text),
     status |-> "loop", result |-> None]

IdleCall == [attempt |-> 0, wait_time |-> 0, prompt |-> NoPrompt,
             status |-> "idle", result |-> None]

\* a bug: the delay is never doubled
BackoffForgotten(w) == w

\* wait_time *= 2
Backoff(w) == w * 2

\* a bug: one iteration too many
LoopContinuesOffByOne(attempt) == attempt <= max_retries

\* for attempt in range(max_retries): whether another iteration follows
LoopContinues(attempt) == attempt < max_retries

\* a return statement inside the loop
ReturnFrom(c, value, prints) ==
    [next |-> [c EXCEPT !.status = "returned", !.result = value], emits |-> prints]

\* the 429 and 503 branches and the network handler: print, time.sleep(wait_time),
\* wait_time *= 2, then the next iteration or lines 118-119
RetryAfter(c, msg) ==
    LET slept == <<Printed(msg), Slept(c.wait_time)>>
        n == [c EXCEPT !.attempt = c.attempt + 1, !.wait_time = Backoff(c.wait_time)]
    IN IF LoopContinues(n.attempt)
       THEN [next |-> n, emits |-> slept]
       ELSE ReturnFrom(n, EmptyDict, slept \o <<Printed("gave_up")>>)

\* response_data["choices"][0]["message"]["content"]
ContentOf(data) ==
    LET choices == Subscript(data, "choices")
    IN IF Raised(choices) THEN choices
       ELSE LET choice == First(choices.ok)
            IN IF Raised(choice) THEN choice
               ELSE LET message == Subscript(choice.ok, "message")
                    IN IF Raised(message) THEN message
                       ELSE Subscript(message.ok, "content")

\* lines 79-88 under the handlers of lines 85 and 114.  The handler of line 85
\* prints `content`, which is unbound when the subscripts raised KeyError: the
\* UnboundLocalError leaves the handler and is caught at line 114.
On200(c, body) ==
    IF ~body.json THEN ReturnFrom(c, EmptyDict, <<Printed("unexpected")>>)
    ELSE LET content == ContentOf(body.data)
         IN IF Raised(content)
            THEN IF content.exc = "KeyError"
                 THEN ReturnFrom(c, EmptyDict, <<Printed("parse_error"), Printed("unexpected")>>)
                 ELSE ReturnFrom(c, EmptyDict, <<Printed("unexpected")>>)
            ELSE LET parsed == JsonLoads(content.ok)
                 IN IF Raised(parsed)
                    THEN IF parsed.exc = "JSONDecodeError"
                         THEN ReturnFrom(c, EmptyDict, <<Printed("parse_error"), Printed("raw")>>)
                         ELSE ReturnFrom(c, EmptyDict, <<Printed("unexpected")>>)
                    ELSE ReturnFrom(c, parsed.ok, <<>>)

\* a bug: every status but 200 is retried
OnResponseRetriesAll(c, r) ==
    IF r.code = 200 THEN On200(c, r.body) ELSE RetryAfter(c, "rate_limited")

\* the dispatch on response.status_code, lines 79-105
OnResponse(c, r) ==
    CASE r.code = 200 -> On200(c, r.body)
      [] r.code = 429 -> RetryAfter(c, "rate_limited")
      [] r.code = 503 -> RetryAfter(c, "unavailable")
      [] OTHER -> ReturnFrom(c, EmptyDict, <<Printed("api_error")>>)

\* one iteration, lines 69-116: r is what requests.post did
Attempt(c, r) ==
    LET done == CASE r.kind = "http" -> OnResponse(c, r)
                  [] r.kind \in {"Timeout", "ConnectionError"} -> RetryAfter(c, "network")
                  [] OTHER -> ReturnFrom(c, EmptyDict, <<Printed("unexpected")>>)
    IN [next |-> done.next, emits |-> <<Posted(c.prompt, r)>> \o done.emits]

---------------------------------------------------------------------------
(* process_single_pdf. *)

ErrorRecord(filename, marker) ==
    Dict(<< <<"filename", Str(filename)>>, <<"error", Str(marker)>> >>)

TEXT_EXTRACTION_FAILED ==
    <<"T", "E", "X", "T", "_", "E", "X", "T", "R", "A", "C", "T", "I", "O", "N", "_", "F", "A", "I", "L", "E", "D">>

API_CALL_FAILED ==
    <<"A", "P", "I", "_", "C", "A", "L", "L", "_", "F", "A", "I", "L", "E", "D">>

\* lines 133-143: what process_single_pdf returns for the result of
\* call_llm_api, or the AttributeError of result.get on a non-dict
ProcessResult(filename, result) ==
    IF ~Truthy(result) THEN Ok(ErrorRecord(filename, API_CALL_FAILED))
    ELSE LET title == Get(result, "title", Str(<<>>))
         IN IF Raised(title) THEN title
            ELSE Ok(Dict(<< <<"filename", Str(filename)>>,
                           <<"title", title.ok>>,
                           <<"journal", DictGet(result, "journal", Str(<<>>))>>,
                           <<"authors", DictGet(result, "authors", List(<<>>))>>,
                           <<"citations", DictGet(result, "citations", List(<<>>))>> >>))

---------------------------------------------------------------------------
(* main: the outcome line of one future, and the rows of one record. *)

Line(kind, file, count) == [kind |-> kind, file |-> file, count |-> count]

\* a bug: a future that raised is passed over in silence
CollectOneSilent(pdf_path, fut) ==
    IF Raised(fut)
    THEN [append |-> FALSE, lines |-> <<>>]
    ELSE LET n == PyLen(DictGet(fut.ok, "citations", List(<<>>)))
         IN [append |-> TRUE,
             lines |-> <<Line(IF ~Raised(n) /\ n.ok > 0 THEN "found" ELSE "none",
                              Basename(pdf_path), IF Raised(n) THEN 0 ELSE n.ok)>>]

\* lines 160-167 for a future that finished with outcome fut: whether the
\* record is appended, and the lines printed
CollectOne(pdf_path, fut) ==
    IF Raised(fut)
    THEN [append |-> FALSE, lines |-> <<Line("failed", Basename(pdf_path), 0)>>]
    ELSE LET n == PyLen(DictGet(fut.ok, "citations", List(<<>>)))
         IN IF Raised(n)
            THEN [append |-> TRUE, lines |-> <<Line("failed", Basename(pdf_path), 0)>>]
            ELSE [append |-> TRUE,
                  lines |-> <<Line(IF n.ok > 0 THEN "found" ELSE "none",
                                   Basename(pdf_path), n.ok)>>]

\* a bug: a quote of exactly 200 characters is cut too
QuoteCellOffByOne(cite) ==
    LET quote == DictGet(cite, "quote", Str(<<>>))
    IN IF cite.t # "dict" THEN Raise("AttributeError")
       ELSE IF quote.t # "str" THEN Raise("TypeError")
       ELSE IF Len(quote.v) >= QuoteLimit
            THEN Ok(Str(SubSeq(quote.v, 1, QuoteLimit) \o Ellipsis))
            ELSE Ok(quote)

\* line 180: quote[:200] + "..." if len(quote) > 200 else quote
QuoteCell(cite) ==
    LET quote == Get(cite, "quote", Str(<<>>))
    IN IF Raised(quote) THEN quote
       ELSE LET n == PyLen(quote.ok)
            IN IF Raised(n) THEN n
               ELSE IF n.ok > QuoteLimit
                    THEN IF quote.ok.t = "str"
                         THEN Ok(Str(SubSeq(quote.ok.v, 1, QuoteLimit) \o Ellipsis))
                         ELSE Raise("TypeError")
                    ELSE quote

\* lines 175-183: the list handed to writer.writerow, its items evaluated in
\* order
RowFor(res, cite) ==
    LET authors == Join(AuthorSep, DictGet(res, "authors", List(<<>>)))
    IN IF Raised(authors) THEN authors
       ELSE LET quote == QuoteCell(cite)
            IN IF Raised(quote) THEN quote
               ELSE Ok(<<DictGet(res, "filename", None),
                         DictGet(res, "title", Str(<<>>)),
                         DictGet(res, "journal", Str(<<>>)),
                         authors.ok,
                         quote.ok,
                         DictGet(cite, "sentiment", Str(<<>>)),
                         DictGet(cite, "page", Str(<<>>))>>)

\* the inner loop of line 174 over the items from the i-th on: the rows written
\* and the exception that ended it, if one did
RECURSIVE WriteCites(_, _, _)
WriteCites(res, items, i) ==
    IF i > Len(items) THEN [rows |-> <<>>, exc |-> ""]
    ELSE LET row == RowFor(res, items[i])
         IN IF Raised(row) THEN [rows |-> <<>>, exc |-> row.exc]
            ELSE LET rest == WriteCites(res, items, i + 1)
                 IN [rows |-> <<row.ok>> \o rest.rows, exc |-> rest.exc]

\* lines 174-183 for one record of results
WriteRecord(res) ==
    LET items == Iterate(DictGet(res, "citations", List(<<>>)))
    IN IF Raised(items) THEN [rows |-> <<>>, exc |-> items.exc]
       ELSE WriteCites(res, items.ok, 1)

\* line 172: the header row (the labels are Chinese in the source)
HeaderRow == <<"filename", "citing title", "journal", "authors", "quote", "sentiment", "page">>

---------------------------------------------------------------------------
(* The environment: the folder, what extract_pdf does with a file, what    *)
(* requests.post does with a request.                                      *)

Names == {<<"a", ".", "p", "d", "f">>, <<"b", ".", "P", "D", "F">>,
          <<"c", ".", "P", "d", "f">>, <<"n", ".", "t", "x", "t">>}

\* os.listdir(PDF_FOLDER): any folder of at most MaxFiles files
Folders == {S \in SUBSET Names : Cardinality(S) <= MaxFiles}

AllPaths == {PathJoin(PDF_FOLDER, f) : f \in Names}

\* the worker-pool sizes considered: the configured MAX_CONCURRENT and two
\* smaller settings of it
PoolSizes == {1, 2, MAX_CONCURRENT}

\* n characters, the i-th depending on i
Chars(n) == [i \in 1..n |-> LowerCase[((i - 1) % 26) + 1]]

\* extract_pdf raises (pdfminer on a corrupt file), returns "" (a scanned
\* file, or only whitespace), or returns a text of this many characters
ExtractOutcomes ==
    {Raise("PDFSyntaxError"), Ok(0), Ok(PromptTextLabel), Ok(PromptTextLabel + 1)}

Cite(quote, sentiment, page) ==
    Dict(<< <<"quote", quote>>, <<"sentiment", Str(sentiment)>>, <<"page", Str(page)>> >>)

Positive == <<"p", "o", "s">>

Neutral == <<"n", "e", "u">>

\* a well-shaped record with two citations
TwoCitations ==
    Dict(<< <<"title", Str(<<"T">>)>>, <<"journal", Str(<<"J">>)>>,
            <<"authors", List(<<Str(<<"L", "i">>), Str(<<"W", "u">>)>>)>>,
            <<"citations", List(<<Cite(Str(<<"o", "k">>), Positive, <<"3">>),
                                  Cite(Str(<<"n", "o">>), Neutral, <<"4">>)>>)>> >>)

\* well-shaped, with quotes of 201 and of 200 characters
LongQuotes ==
    Dict(<< <<"title", Str(<<"T">>)>>,
            <<"authors", List(<<Str(<<"L", "i">>)>>)>>,
            <<"citations", List(<<Cite(Str(Chars(QuoteLimit + 1)), Positive, <<"3">>),
                                  Cite(Str(Chars(QuoteLimit)), Neutral, <<"4">>)>>)>> >>)

\* only a title: journal, authors and citations are missing
TitleOnly == Dict(<< <<"title", Str(<<"T">>)>> >>)

\* citations with missing fields, no title, journal or authors
Sparse ==
    Dict(<< <<"citations", List(<<Dict(<< <<"quote", Str(<<"o", "k">>)>> >>), EmptyDict>>)>> >>)

\* "citations": null
NullCitations == Dict(<< <<"title", Str(<<"T">>)>>, <<"citations", None>> >>)

\* "authors": null beside one well-shaped citation
NullAuthors ==
    Dict(<< <<"authors", None>>,
            <<"citations", List(<<Cite(Str(<<"o", "k">>), Positive, <<"1">>)>>)>> >>)

\* a well-shaped citation followed by a bare string
StringCitation ==
    Dict(<< <<"authors", List(<<Str(<<"L", "i">>)>>)>>,
            <<"citations", List(<<Cite(Str(<<"o", "k">>), Neutral, <<"2">>),
                                  Str(<<"s", "e", "e">>)>>)>> >>)

\* "quote": 7
NumberQuote == Dict(<< <<"citations", List(<<Dict(<< <<"quote", Num(7)>> >>)>>)>> >>)

\* what a completion that is JSON may parse to
Payloads ==
    {TwoCitations, LongQuotes, TitleOnly, Sparse, NullCitations, NullAuthors, StringCitation,
     NumberQuote, EmptyDict, None, List(<<Num(1)>>)}

\* a 200 body whose choices[0].message.content is content
Completion(content) ==
    JsonBody(Dict(<< <<"choices",
        List(<<Dict(<< <<"message", Dict(<< <<"content", content>> >>)>> >>)>>)>> >>))

\* requests.post raised Timeout or ConnectionError, or answered 429 or 503
Transients == {Http(429, NoBody), Http(503, NoBody), Timeout, ConnectionError}

\* a status other than 200, 429, 503; another exception of requests.post; or 200
\* with a body that is not JSON, has no "choices", has an empty "choices", has a
\* null content, has a content that is not JSON
Permanents ==
    {Http(401, NoBody), Http(500, NoBody), RequestException,
     Http(200, NoBody),
     Http(200, JsonBody(EmptyDict)),
     Http(200, JsonBody(Dict(<< <<"choices", List(<<>>)>> >>))),
     Http(200, Completion(None)),
     Http(200, Completion(Str(<<"o", "o", "p", "s">>)))}

Successes == {Http(200, Completion(JsonText(d))) : d \in Payloads}

Responses == Transients \cup Permanents \cup Successes

---------------------------------------------------------------------------
(* State. *)

VARIABLES
    folder,       \* the names os.listdir(PDF_FOLDER) returns
    max_workers,  \* the size of the worker pool
    mainpc,       \* where main is: "off", "list", "collect", "write", "done", "crashed"
    pdf_files,    \* the paths main matched
    tpc,          \* per path, its task: "none", "queued", "running", "calling", "finished"
    call,         \* per path, the frame of its call_llm_api
    future,       \* per path, what its future holds once finished
    collected,    \* the futures as_completed has yielded
    results,      \* the list results
    console,      \* the outcome lines of the collection loop, in order
    csvHeader,    \* the header row of the output file, <<>> before it is opened
    csvRows,      \* the data rows of the output file
    rowSource,    \* per data row, the citation item it was written from
    widx,         \* the index in results of the record the writer is at
    directText,   \* a direct call of call_llm_api: its argument
    direct,       \* ... its frame
    events,       \* ... what it did so far: requests, prints, sleeps
    directOut,    \* ... what process_single_pdf makes of its result
    run,          \* which run of main over the folder this is
    prevHeader,   \* the header row the previous run wrote
    prevRows,     \* the data rows the previous run wrote
    docKind       \* per name, the scripted behaviour of its file ("live": unscripted)

pipeVars == <<mainpc, pdf_files, tpc, call, future, collected, results, console,
              csvHeader, csvRows, rowSource, widx>>

directVars == <<directText, direct, events, directOut>>

rerunVars == <<run, prevHeader, prevRows>>

envVars == <<folder, max_workers, docKind>>

vars == <<pipeVars, directVars, rerunVars, envVars>>

Pending == Raise("pending")

\* main has not started
PipeStart(pc) ==
    /\ mainpc = pc
    /\ pdf_files = {}
    /\ tpc = [p \in AllPaths |-> "none"]
    /\ call = [p \in AllPaths |-> IdleCall]
    /\ future = [p \in AllPaths |-> Pending]
    /\ collected = {}
    /\ results = <<>>
    /\ console = <<>>
    /\ csvHeader = <<>>
    /\ csvRows = <<>>
    /\ rowSource = <<>>
    /\ widx = 1

DirectOff ==
    /\ directText = 0
    /\ direct = IdleCall
    /\ events = <<>>
    /\ directOut = Pending

FirstRun ==
    /\ run = 1
    /\ prevHeader = <<>>
    /\ prevRows = <<>>

Init ==
    /\ folder \in Folders
    /\ max_workers \in PoolSizes
    /\ docKind = [f \in Names |-> "live"]
    /\ PipeStart("list")
    /\ DirectOff
    /\ FirstRun

---------------------------------------------------------------------------
(* main, lines 147-157: list the folder, keep the PDF names, submit one    *)
(* task per path.                                                          *)

MatchedFiles(listing) == {PathJoin(PDF_FOLDER, f) : f \in {g \in listing : IsPdfName(g)}}

ListFolder ==
    /\ mainpc = "list"
    /\ pdf_files' = MatchedFiles(folder)
    /\ tpc' = [p \in AllPaths |-> IF p \in MatchedFiles(folder) THEN "queued" ELSE "none"]
    /\ mainpc' = "collect"
    /\ UNCHANGED <<call, future, collected, results, console, csvHeader, csvRows,
                   rowSource, widx, directVars, rerunVars, envVars>>

(* The worker pool: a free worker takes a queued task. *)

Busy == {p \in AllPaths : tpc[p] \in {"running", "calling"}}

StartTask(p) ==
    /\ tpc[p] = "queued"
    /\ Cardinality(Busy) < max_workers
    /\ tpc' = [tpc EXCEPT ![p] = "running"]
    /\ UNCHANGED <<mainpc, pdf_files, call, future, collected, results, console,
                   csvHeader, csvRows, rowSource, widx, directVars, rerunVars, envVars>>

\* extract_pdf has no handler of its own, and process_single_pdf none around
\* it: what the parser raises leaves both
ExtractPdf(outcome) == outcome

\* process_single_pdf, lines 123-132: extract_pdf did `outcome`
Extract(p, outcome) ==
    /\ tpc[p] = "running"
    /\ LET pdf_text == ExtractPdf(outcome)
       IN IF Raised(pdf_text)
          THEN /\ tpc' = [tpc EXCEPT ![p] = "finished"]
               /\ future' = [future EXCEPT ![p] = pdf_text]
               /\ call' = call
          ELSE IF ~(pdf_text.ok > 0)
          THEN /\ tpc' = [tpc EXCEPT ![p] = "finished"]
               /\ future' = [future EXCEPT
                      ![p] = Ok(ErrorRecord(Basename(p), TEXT_EXTRACTION_FAILED))]
               /\ call' = call
          ELSE /\ tpc' = [tpc EXCEPT ![p] = "calling"]
               /\ call' = [call EXCEPT ![p] = NewCall(pdf_text.ok)]
               /\ future' = future
    /\ UNCHANGED <<mainpc, pdf_files, collected, results, console, csvHeader, csvRows,
                   rowSource, widx, directVars, rerunVars, envVars>>

\* one iteration of the retry loop of the task's call_llm_api: requests.post did
\* r.  When the call returns, lines 133-143 finish the task.
Request(p, r) ==
    /\ tpc[p] = "calling"
    /\ LET c == Attempt(call[p], r).next
       IN IF c.status = "returned"
          THEN /\ tpc' = [tpc EXCEPT ![p] = "finished"]
               /\ future' = [future EXCEPT ![p] = ProcessResult(Basename(p), c.result)]
               /\ call' = [call EXCEPT ![p] = IdleCall]
          ELSE /\ call' = [call EXCEPT ![p] = c]
               /\ UNCHANGED <<tpc, future>>
    /\ UNCHANGED <<mainpc, pdf_files, collected, results, console, csvHeader, csvRows,
                   rowSource, widx, directVars, rerunVars, envVars>>

(* main, lines 158-167: as_completed yields a finished future. *)

Collect(p) ==
    /\ mainpc = "collect"
    /\ p \in pdf_files \ collected
    /\ tpc[p] = "finished"
    /\ LET c == CollectOne(p, future[p])
       IN /\ results' = IF c.append THEN Append(results, future[p].ok) ELSE results
          /\ console' = console \o c.lines
    /\ collected' = collected \cup {p}
    /\ UNCHANGED <<mainpc, pdf_files, tpc, call, future, csvHeader, csvRows,
                   rowSource, widx, directVars, rerunVars, envVars>>

(* main, lines 170-172: every future was yielded; the file is opened and the *)
(* header written.                                                           *)

OpenCsv ==
    /\ mainpc = "collect"
    /\ collected = pdf_files
    /\ csvHeader' = HeaderRow
    /\ mainpc' = "write"
    /\ UNCHANGED <<pdf_files, tpc, call, future, collected, results, console, csvRows,
                   rowSource, widx, directVars, rerunVars, envVars>>

(* main, lines 173-183: the rows of the next record; an exception leaves main. *)

WriteNext ==
    /\ mainpc = "write"
    /\ widx <= Len(results)
    /\ LET w == WriteRecord(results[widx])
           items == Iterate(DictGet(results[widx], "citations", List(<<>>)))
       IN /\ csvRows' = csvRows \o w.rows
          /\ rowSource' = rowSource \o
                (IF Len(w.rows) = 0 THEN <<>> ELSE SubSeq(items.ok, 1, Len(w.rows)))
          /\ mainpc' = IF w.exc # "" THEN "crashed" ELSE "write"
    /\ widx' = widx + 1
    /\ UNCHANGED <<pdf_files, tpc, call, future, collected, results, console, csvHeader,
                   directVars, rerunVars, envVars>>

(* main, line 184. *)

Finish ==
    /\ mainpc = "write"
    /\ widx > Len(results)
    /\ mainpc' = "done"
    /\ UNCHANGED <<pdf_files, tpc, call, future, collected, results, console, csvHeader,
                   csvRows, rowSource, widx, directVars, rerunVars, envVars>>

Next ==
    \/ ListFolder
    \/ \E p \in AllPaths : StartTask(p)
    \/ \E p \in AllPaths, o \in ExtractOutcomes : Extract(p, o)
    \/ \E p \in AllPaths, r \in Responses : Request(p, r)
    \/ \E p \in AllPaths : Collect(p)
    \/ OpenCsv
    \/ WriteNext
    \/ Finish

Spec == Init /\ [][Next]_vars

---------------------------------------------------------------------------
(* A direct call of call_llm_api(pdf_text), as a test with a fake transport *)
(* and a fake clock makes it: every request, print and sleep is recorded,   *)
(* and process_single_pdf's lines 133-143 then take the result.             *)

DirectTexts == {1, PromptTextLabel, PromptTextLabel + 1}

DirectFile == <<"a", ".", "p", "d", "f">>

InitCall ==
    /\ folder = {}
    /\ max_workers = MAX_CONCURRENT
    /\ docKind = [f \in Names |-> "live"]
    /\ PipeStart("off")
    /\ FirstRun
    /\ directText \in DirectTexts
    /\ direct = NewCall(directText)
    /\ events = <<>>
    /\ directOut = Pending

DirectAttempt(r) ==
    /\ direct.status = "loop"
    /\ direct' = Attempt(direct, r).next
    /\ events' = events \o Attempt(direct, r).emits
    /\ UNCHANGED <<directText, directOut, pipeVars, rerunVars, envVars>>

DirectReturn ==
    /\ direct.status = "returned"
    /\ directOut = Pending
    /\ directOut' = ProcessResult(DirectFile, direct.result)
    /\ UNCHANGED <<directText, direct, events, pipeVars, rerunVars, envVars>>

NextCall ==
    \/ \E r \in Responses : DirectAttempt(r)
    \/ DirectReturn

SpecCall == InitCall /\ [][NextCall]_vars

---------------------------------------------------------------------------
(* Two runs of main over an unchanged folder with a deterministic extractor *)
(* and classifier: what a file does is fixed by its kind.                   *)

DocKinds == {"corrupt", "blank", "cited", "uncited", "unauthorized", "null_authors"}

\* the deterministic extract_pdf
MockExtract(kind) ==
    CASE kind = "corrupt" -> Raise("PDFSyntaxError")
      [] kind = "blank" -> Ok(0)
      [] OTHER -> Ok(PromptTextLabel)

\* the deterministic requests.post: the answer to the request of this attempt
MockResponse(kind, attempt) ==
    CASE kind = "cited" ->
            IF attempt < 2 THEN Http(429, NoBody)
            ELSE Http(200, Completion(JsonText(TwoCitations)))
      [] kind = "uncited" -> Http(200, Completion(JsonText(TitleOnly)))
      [] kind = "null_authors" -> Http(200, Completion(JsonText(NullAuthors)))
      [] OTHER -> Http(401, NoBody)

InitRerun ==
    /\ folder \in Folders
    /\ max_workers \in PoolSizes
    /\ docKind \in {k \in [Names -> DocKinds \cup {"live"}] :
                      \A f \in Names : (k[f] = "live") <=> ~(f \in folder /\ IsPdfName(f))}
    /\ PipeStart("list")
    /\ DirectOff
    /\ FirstRun

\* main has ended; it is run again over the same folder
Rerun ==
    /\ run = 1
    /\ mainpc \in {"done", "crashed"}
    /\ run' = 2
    /\ prevHeader' = csvHeader
    /\ prevRows' = csvRows
    /\ mainpc' = "list"
    /\ pdf_files' = {}
    /\ tpc' = [p \in AllPaths |-> "none"]
    /\ call' = [p \in AllPaths |-> IdleCall]
    /\ future' = [p \in AllPaths |-> Pending]
    /\ collected' = {}
    /\ results' = <<>>
    /\ console' = <<>>
    /\ csvHeader' = <<>>
    /\ csvRows' = <<>>
    /\ rowSource' = <<>>
    /\ widx' = 1
    /\ UNCHANGED <<directVars, envVars>>

NextRerun ==
    \/ ListFolder
    \/ \E p \in AllPaths : StartTask(p)
    \/ \E p \in AllPaths : Extract(p, MockExtract(docKind[Basename(p)]))
    \/ \E p \in AllPaths : Request(p, MockResponse(docKind[Basename(p)], call[p].attempt))
    \/ \E p \in AllPaths : Collect(p)
    \/ OpenCsv
    \/ WriteNext
    \/ Finish
    \/ Rerun

SpecRerun == InitRerun /\ [][NextRerun]_vars

---------------------------------------------------------------------------
(* Properties of one call of call_llm_api, checked under SpecCall.          *)

IsPost(e) == e.e = "post"

IsPostOrSleep(e) == e.e \in {"post", "sleep"}

Posts == SelectSeq(events, IsPost)

Timed == SelectSeq(events, IsPostOrSleep)

IsTransient(r) ==
    \/ r.kind \in {"Timeout", "ConnectionError"}
    \/ r.kind = "http" /\ r.code \in {429, 503}

IsSuccess(r) == \E d \in Payloads : r = Http(200, Completion(JsonText(d)))

IsNonRetryable(r) == r.kind = "http" /\ r.code \notin {429, 503} /\ ~IsSuccess(r)

\* C1: k < 3 transient failures (429, 503, Timeout, ConnectionError in any mix)
\* followed by a 200 whose completion is JSON: the call makes exactly k+1
\* requests, sleeps once before each retry, 5 seconds then 10, and returns the
\* parsed payload.
C1_RetriesThenSuccess ==
    LET n == Len(Posts)
        k == n - 1
    IN (/\ n >= 1
        /\ \A i \in 1..k : IsTransient(Posts[i].resp)
        /\ IsSuccess(Posts[n].resp))
       => /\ direct.status = "returned"
          /\ k < 3
          /\ \E d \in Payloads : /\ Posts[n].resp = Http(200, Completion(JsonText(d)))
                                 /\ direct.result = d
          /\ Len(Timed) = 2 * k + 1
          /\ \A i \in 1..k : /\ Timed[2 * i - 1].e = "post"
                             /\ Timed[2 * i].e = "sleep"
                             /\ Timed[2 * i].secs = 5 * (2 ^ (i - 1))
          /\ Timed[2 * k + 1].e = "post"

\* two rate-limit responses, then a success: 3 requests, delays 5 and 10, the
\* payload returned
C1_Witness ==
    /\ direct.status = "returned"
    /\ Len(Posts) = 3
    /\ Posts[1].resp = Http(429, NoBody)
    /\ Posts[2].resp = Http(429, NoBody)
    /\ Posts[3].resp = Http(200, Completion(JsonText(TwoCitations)))
    /\ direct.result = TwoCitations
    /\ Timed[2].secs = 5
    /\ Timed[4].secs = 10

\* C2: a non-retryable outcome (a status other than 200, 429, 503, or a 200
\* whose body or completion is malformed), on whichever attempt, ends the call
\* at once: the empty result is returned, nothing is slept and nothing requested
\* after it; as the first response it leaves exactly 1 request.
C2_NonRetryableEndsCall ==
    \A i \in 1..Len(events) :
        (IsPost(events[i]) /\ IsNonRetryable(events[i].resp))
        => /\ direct.status = "returned"
           /\ direct.result = EmptyDict
           /\ \A j \in (i + 1)..Len(events) : events[j].e = "print"
           /\ (i = 1 => Len(Posts) = 1)

\* 401 as the first response: returned empty after 1 request, no sleep
C2_Witness ==
    /\ direct.status = "returned"
    /\ Len(Posts) = 1
    /\ Posts[1].resp = Http(401, NoBody)
    /\ direct.result = EmptyDict
    /\ Len(Timed) = 1

\* C3: a call never makes more than 3 requests; when all 3 end in a transient
\* failure it returns the empty result, and process_single_pdf returns a record
\* with the error API_CALL_FAILED and no citations.
C3_ThreeRequestsAtMost ==
    /\ Len(Posts) <= 3
    /\ (Len(Posts) = 3 /\ \A i \in 1..3 : IsTransient(Posts[i].resp))
       => /\ direct.status = "returned"
          /\ direct.result = EmptyDict
          /\ directOut.exc \in {"", "pending"}
          /\ directOut.exc = ""
             => /\ DictGet(directOut.ok, "filename", None) = Str(DirectFile)
                /\ DictGet(directOut.ok, "error", None) = Str(API_CALL_FAILED)
                /\ ~HasKey(directOut.ok, "citations")

\* 503, a timeout and a 429: the record of process_single_pdf
C3_Witness ==
    /\ Len(Posts) = 3
    /\ Posts[1].resp = Http(503, NoBody)
    /\ Posts[2].resp = Timeout
    /\ Posts[3].resp = Http(429, NoBody)
    /\ directOut.exc = ""
    /\ DictGet(directOut.ok, "error", None) = Str(API_CALL_FAILED)

\* C9: the prompt of every request embeds at most the first 30,000 characters
\* of the text: a longer text is cut to 30,000, a shorter one embedded whole.
C9_PromptEmbedsAtMost30000 ==
    \A i \in 1..Len(events) :
        IsPost(events[i])
        => events[i].prompt.text = (IF directText > 30000 THEN 30000 ELSE directText)

---------------------------------------------------------------------------
(* Properties of a run of main, checked under Spec.                         *)

MainEnded == mainpc \in {"done", "crashed"}

PoolDrained == mainpc \in {"write", "done", "crashed"}

\* C4: no per-document outcome (extraction returning text, nothing, or
\* raising; a classification that is empty or has title, journal, authors or
\* citations missing or of an unexpected shape) makes main end in an uncaught
\* exception: the output table is written to its end.
C4_NoUncaughtException == mainpc # "crashed"

RecordsOf(p) ==
    {i \in 1..Len(results) : DictGet(results[i], "filename", None) = Str(Basename(p))}

\* C5: once the pool has drained, results holds exactly one record per matched
\* file, each with a citations list or an error field; a failed extraction does
\* not raise past process_single_pdf.
C5_OneRecordPerMatchedFile ==
    PoolDrained
    => /\ Len(results) = Cardinality(pdf_files)
       /\ \A p \in pdf_files : /\ Cardinality(RecordsOf(p)) = 1
                               /\ future[p].exc # "PDFSyntaxError"
       /\ \A i \in 1..Len(results) :
              HasKey(results[i], "citations") \/ HasKey(results[i], "error")

\* a name that ends in .pdf in any mix of cases
EndsInPdfAnyCase(f) ==
    /\ Len(f) >= 4
    /\ f[Len(f) - 3] = "."
    /\ f[Len(f) - 2] \in {"p", "P"}
    /\ f[Len(f) - 1] \in {"d", "D"}
    /\ f[Len(f)] \in {"f", "F"}

LinesFor(f) == {i \in 1..Len(console) : console[i].file = f}

\* C6: the collection loop prints exactly one outcome line per matched file,
\* whether its task returned a record or raised: no file is reported twice,
\* none but a file of the folder ending in .pdf (in any case) is reported, and
\* when the loop has ended every such file has its line.
C6_OneLinePerMatchedFile ==
    /\ \A f \in Names : Cardinality(LinesFor(f)) <= 1
    /\ \A i \in 1..Len(console) :
           /\ console[i].file \in folder
           /\ EndsInPdfAnyCase(console[i].file)
           /\ console[i].kind \in {"found", "none", "failed"}
    /\ PoolDrained
       => /\ Len(console) = Cardinality({f \in folder : EndsInPdfAnyCase(f)})
          /\ \A f \in folder : EndsInPdfAnyCase(f) => Cardinality(LinesFor(f)) = 1

\* two files, one in upper case; one task raised, the other found citations
C6_Witness ==
    /\ mainpc = "done"
    /\ folder = {<<"a", ".", "p", "d", "f">>, <<"b", ".", "P", "D", "F">>}
    /\ Len(console) = 2
    /\ \E i \in 1..2 : console[i].kind = "failed" /\ future[PathJoin(PDF_FOLDER, console[i].file)].exc # ""
    /\ \E i \in 1..2 : console[i].kind = "found" /\ console[i].count = 2

\* the length of a record's citations list (0 when it has none)
CitationCount(res) ==
    LET c == DictGet(res, "citations", List(<<>>))
    IN IF c.t = "list" THEN Len(c.v) ELSE 0

RECURSIVE TotalCitations(_)
TotalCitations(rs) ==
    IF rs = <<>> THEN 0 ELSE CitationCount(Head(rs)) + TotalCitations(Tail(rs))

\* the filename of each citation of each record, in order
RECURSIVE FlatFilenames(_)
FlatFilenames(rs) ==
    IF rs = <<>> THEN <<>>
    ELSE [i \in 1..CitationCount(Head(rs)) |-> DictGet(Head(rs), "filename", None)]
         \o FlatFilenames(Tail(rs))

\* C7: the output table is the flattening of the collected records: as many
\* data rows as the citation lists have items, each row with the filename of
\* its record; a record with an error or without citations gives no row.
C7_RowsFlattenResults ==
    MainEnded
    => /\ Len(csvRows) = TotalCitations(results)
       /\ [i \in 1..Len(csvRows) |-> csvRows[i][1]] = FlatFilenames(results)

\* C8: the quote cell of every row written is the source quote unchanged when
\* that has at most 200 characters, and its first 200 characters followed by
\* "..." when it has more; it never has more than 203 characters.
C8_QuoteCellTruncated ==
    /\ Len(rowSource) = Len(csvRows)
    /\ \A i \in 1..Len(csvRows) :
           LET quote == DictGet(rowSource[i], "quote", Str(<<>>))
               cell == csvRows[i][5]
           IN quote.t = "str"
              => /\ cell.t = "str"
                 /\ Len(cell.v) <= 203
                 /\ Len(quote.v) <= 200 => cell.v = quote.v
                 /\ Len(quote.v) > 200
                    => /\ Len(cell.v) = 203
                       /\ \A j \in 1..200 : cell.v[j] = quote.v[j]
                       /\ \A j \in 201..203 : cell.v[j] = "."

\* a quote of 201 characters written as 203, and one of 200 written whole
C8_Witness ==
    /\ mainpc = "done"
    /\ \E i \in 1..Len(csvRows) :
           /\ Len(DictGet(rowSource[i], "quote", Str(<<>>)).v) = 201
           /\ Len(csvRows[i][5].v) = 203
    /\ \E i \in 1..Len(csvRows) :
           /\ Len(DictGet(rowSource[i], "quote", Str(<<>>)).v) = 200
           /\ csvRows[i][5] = DictGet(rowSource[i], "quote", Str(<<>>))

---------------------------------------------------------------------------
(* Two runs, checked under SpecRerun.                                       *)

\* the multiset of the rows: each row with the number of times it occurs
RowBag(rows) ==
    [r \in {rows[i] : i \in 1..Len(rows)} |->
        Cardinality({i \in 1..Len(rows) : rows[i] = r})]

\* the rows of one file, in the order written
RowsOfFile(rows, f) ==
    LET idx == {i \in 1..Len(rows) : rows[i][1] = Str(f)}
        Nth[n \in 1..Cardinality(idx)] ==
            CHOOSE i \in idx : Cardinality({j \in idx : j <= i}) = n
    IN [n \in 1..Cardinality(idx) |-> rows[Nth[n]]]

\* C10: with a deterministic extractor and classifier, two runs over the same
\* folder write the same header and the same multiset of data rows, whatever
\* the pool size, the interleaving and the completion order, and the rows of a
\* document keep the order of its citations.
C10_SameTableUpToRowOrder ==
    (run = 2 /\ MainEnded)
    => /\ csvHeader = prevHeader
       /\ RowBag(csvRows) = RowBag(prevRows)
       /\ \A f \in Names : RowsOfFile(csvRows, f) = RowsOfFile(prevRows, f)

===========================================================================
